---- MODULE Spec2Model ----
(***************************************************************************)
(* A model of the Bandwidth client (src/index.js, class CBandwidth) and of *)
(* its response wrappers (src/unnamed/part_000, the module required as     *)
(* ./response.js).                                                         *)
(*                                                                         *)
(* Raw XML bodies are records (root element plus the data the body holds). *)
(* xml2js turns a body into the "compact" JavaScript structure the         *)
(* accessors walk: a repeated child element becomes an array, a single     *)
(* child a bare object and no child leaves the key undefined.  JavaScript  *)
(* values that an accessor may return are tagged records, so that a string *)
(* and a one-element array are different values, as they are in the code.  *)
(***************************************************************************)
EXTENDS Integers, Sequences, FiniteSets, TLC

VARIABLES
    \* ---- one response wrapper driven by arbitrary callers
    w,            \* the wrapper: [cls, textValue, json, nextIndex]
    nParse,       \* xml2js calls made on the text w holds now
    lastRead,     \* the last value a reader returned, and the text it read
    \* ---- getSipPeersTNSAll and the page iterator
    pages,        \* the server's chain of pages: numbers held by each page
    resObject,    \* the CBWTNSResponse the iterator mutates in place
    tpc,          \* position of the consumer
    result,       \* the accumulating array of getSipPeersTNSAll
    fetched,      \* urls GET was issued for, in order
    inflight,     \* urls of the steps of next() whose GET has not returned
    lastNext,     \* the last decision of next() and the text it was taken on
    lastHanded,   \* the last page a step handed over, and the wrapper's text then
    tnsOutcome,   \* how getSipPeersTNSAll ended
    \* ---- allocate
    apc,          \* position of allocate
    q,            \* the query as searchAndOrderDID left it
    order,        \* the CBWOrderResponse of the submission
    check,        \* the CBWCheckOrderResponse of the status check
    promise,      \* the promise allocate awaits: [state, value]
    cb,           \* the async timer callback: notrun, running, fulfilled, rejected
    outcome,      \* how allocate ended: [kind, value]
    posts,        \* order submissions issued: the order posted by each
    gets,         \* status checks issued: the clock value and the order id of each
    clock,        \* milliseconds
    armedAt,      \* clock value when setTimeout was called, -1 before
    httpFail      \* status text of a non-success response received, or Null

cacheVars == <<w, nParse, lastRead>>
pageVars  == <<pages, resObject, tpc, result, fetched, inflight, lastNext,
               lastHanded, tnsOutcome>>
allocVars == <<apc, q, order, check, promise, cb, outcome, posts, gets,
               clock, armedAt, httpFail>>
vars == <<cacheVars, pageVars, allocVars>>

\* ------------------------------------------------------------------ bounds
MaxNums   == 2     \* numbers held by one body
MaxPages  == 3     \* pages of a listing
MaxFlight == 2     \* steps of the iterator a consumer leaves unawaited

\* ------------------------------------------------------------------ inputs
\* the url of page i of a listing
Url(i) == "/tns?size=100&page=" \o ToString(i)

\* the j-th telephone number of page (or body) p
Num(p, j) == "91955501" \o ToString(p) \o ToString(j)
NumsOf(p, c) == [j \in 1..c |-> Num(p, j)]

\* ------------------------------------------------------- JavaScript values
Null      == [kind |-> "null"]
Undefined == [kind |-> "undefined"]
TypeError == [kind |-> "TypeError"]
Str(s)    == [kind |-> "string", s |-> s]
Arr(xs)   == [kind |-> "array", items |-> xs]
JSError(cls, msg) == [kind |-> "Error", cls |-> cls, message |-> msg]

\* ------------------------------------------------------------- raw bodies
EmptyText == [root |-> ""]
TNSText(nums, next) ==
    [root |-> "SipPeerTelephoneNumbersResponse", numbers |-> nums, next |-> next]
OrderText(id, status, peerId, summary, nums) ==
    [root |-> "OrderResponse", id |-> id, status |-> status, peerId |-> peerId,
     summary |-> summary, numbers |-> nums]

\* The text of <Links><next>: the url between angle brackets, then the relation.
LinkText(url) == <<"<", url, ">", "; rel=next">>

\* /<(.+)>/.exec(text)[1]: what stands between the first "<" and the last ">".
regexExec1(text) ==
    LET lt == CHOOSE i \in 1..Len(text) :
                  text[i] = "<" /\ \A j \in 1..(i - 1) : text[j] # "<"
        gt == CHOOSE i \in 1..Len(text) :
                  text[i] = ">" /\ \A j \in (i + 1)..Len(text) : text[j] # ">"
    IN  SubSeq(text, lt + 1, gt - 1)

\* --------------------------------------------------------------- xml2js
\* compact form of a repeated child element <name><FullNumber>n</FullNumber></name>
Compact(nums) ==
    IF Len(nums) = 0 THEN Undefined
    ELSE IF Len(nums) = 1
         THEN [kind |-> "object", FullNumber |-> [_text |-> nums[1]]]
         ELSE [kind |-> "array",
               items |-> [i \in 1..Len(nums) |->
                            [kind |-> "object", FullNumber |-> [_text |-> nums[i]]]]]

xml2js(text) ==
    IF text.root = "SipPeerTelephoneNumbersResponse"
    THEN [SipPeerTelephoneNumbersResponse |->
            [SipPeerTelephoneNumbers |->
                [SipPeerTelephoneNumber |-> Compact(text.numbers)],
             Links |-> IF text.next = "" THEN Undefined
                       ELSE [kind |-> "object",
                             next |-> [_text |-> LinkText(text.next)]]]]
    ELSE [OrderResponse |->
            [Order |-> [id |-> [_text |-> text.id],
                        PeerId |-> [_text |-> text.peerId]],
             OrderStatus |-> [_text |-> text.status],
             Summary |-> [_text |-> text.summary],
             CompletedNumbers |->
                IF Len(text.numbers) = 0 THEN Undefined
                ELSE [kind |-> "object",
                      TelephoneNumber |-> Compact(text.numbers)]],
          order_id |-> Undefined]

\* ------------------------------------------------------------ CBWResponse
\* set text(text)
setTextKeepsJson(o, text) == [o EXCEPT !.textValue = text]
setText(o, text) == [o EXCEPT !.textValue = text, !.json = Null]

\* toJSON(): the wrapper afterwards, and the value returned
toJSONParses(o) == o.textValue # EmptyText /\ o.json = Null
toJSONObj(o) ==
    IF toJSONParses(o) THEN [o EXCEPT !.json = xml2js(o.textValue)] ELSE o
toJSON(o) == IF o.textValue = EmptyText THEN Null ELSE toJSONObj(o).json

\* constructors: CBWTNSResponse parses lazily, the order wrappers at once
NewResponse(cls, text) ==
    LET o == [cls |-> cls, textValue |-> text, json |-> Null, nextIndex |-> 0]
    IN  IF cls = "CBWTNSResponse" THEN o ELSE toJSONObj(o)

\* -------------------------------------------------------- CBWTNSResponse
TNSNumbers(o) ==
    IF toJSON(o) = Null THEN Null
    ELSE LET c == toJSONObj(o).json.SipPeerTelephoneNumbersResponse
                      .SipPeerTelephoneNumbers.SipPeerTelephoneNumber
         IN  IF c.kind = "array"
             THEN Arr([i \in 1..Len(c.items) |-> c.items[i].FullNumber._text])
             ELSE IF c.kind = "undefined" THEN TypeError
             ELSE Arr(<<c.FullNumber._text>>)

\* a next() that also stops once it has advanced
nextDoneAfterOneStep(o) ==
    \/ o.nextIndex >= 1
    \/ toJSON(o) = Null
    \/ toJSON(o).SipPeerTelephoneNumbersResponse.Links.kind = "undefined"

\* next(), line 108: no (truthy) text under Links.next of the parsed body
nextDone(o) ==
    \/ toJSON(o) = Null
    \/ toJSON(o).SipPeerTelephoneNumbersResponse.Links.kind = "undefined"
    \/ Len(toJSON(o).SipPeerTelephoneNumbersResponse.Links.next._text) = 0

\* next(), line 111: the link of the page held
nextLink(o) ==
    regexExec1(toJSON(o).SipPeerTelephoneNumbersResponse.Links.next._text)

\* a step that counts the page but keeps the old text
stepKeepsText(o, body) == [o EXCEPT !.nextIndex = @ + 1]

\* next(), lines 118-119: the step's GET returned body
stepReplace(o, body) == [setText(o, body) EXCEPT !.nextIndex = @ + 1]

\* next(), line 120: the page the step hands over
stepValue(o) == NewResponse("CBWTNSResponse", o.textValue)

\* ------------------------------------- CBWOrderResponse, CBWCheckOrderResponse
OrderId(o) ==
    IF o.json = Null THEN Null ELSE Str(o.json.OrderResponse.Order.id._text)

OrderStatus(o) ==
    IF o.json = Null THEN Null ELSE Str(o.json.OrderResponse.OrderStatus._text)

CheckNumbers(o) ==
    IF o.json = Null THEN Null
    ELSE LET cn == o.json.OrderResponse.CompletedNumbers
         IN  IF cn.kind = "undefined" THEN TypeError
             ELSE IF cn.TelephoneNumber.kind = "array"
             THEN Arr([i \in 1..Len(cn.TelephoneNumber.items) |->
                          "+1" \o cn.TelephoneNumber.items[i].FullNumber._text])
             ELSE Str("+1" \o cn.TelephoneNumber.FullNumber._text)

\* -------------------------------------------------------- UnifiedResponse
\* String.prototype.indexOf over the pieces of a text, 0-based, -1 if absent
indexOf(input, piece) ==
    IF \E i \in 1..Len(input) : input[i] = piece
    THEN (CHOOSE i \in 1..Len(input) :
             input[i] = piece /\ \A j \in 1..(i - 1) : input[j] # piece) - 1
    ELSE -1

\* String.prototype.substring(a, b), which swaps its arguments when a > b
substring(input, a, b) ==
    LET lo == IF a <= b THEN a ELSE b
        hi == IF a <= b THEN b ELSE a
    IN  SubSeq(input, lo + 1, hi)

_parseAreaCode(input) ==
    LET start == indexOf(input, "(")
        end   == indexOf(input, ")")
    IN  IF start > -1 /\ end > -1
        THEN [kind |-> "string", s |-> substring(input, start + 1, end)]
        ELSE Null

\* a Response getter that takes TelephoneNumber for an array whatever it is
UnifiedResponseNoWrap(obj) ==
    LET cn == obj.OrderResponse.CompletedNumbers
    IN  IF cn.kind = "undefined" \/ cn.TelephoneNumber.kind # "array"
        THEN TypeError
        ELSE [kind |-> "object",
              dids |-> [i \in 1..Len(cn.TelephoneNumber.items) |->
                  [peerId |-> Str(obj.OrderResponse.Order.PeerId._text),
                   didId |-> obj.order_id,
                   e164 |-> Str("+1" \o cn.TelephoneNumber.items[i].FullNumber._text),
                   countryCodeA3 |-> Str("USA"),
                   areaCode |-> _parseAreaCode(obj.OrderResponse.Summary._text)]],
              resultCount |-> Len(cn.TelephoneNumber.items)]

\* get Response()
UnifiedResponse(obj) ==
    LET cn == obj.OrderResponse.CompletedNumbers
    IN  IF cn.kind = "undefined" THEN TypeError
        ELSE LET numbers ==
                     IF cn.TelephoneNumber.kind = "array"
                     THEN cn.TelephoneNumber.items
                     ELSE <<[FullNumber |->
                               [_text |-> cn.TelephoneNumber.FullNumber._text]]>>
             IN  [kind |-> "object",
                  dids |-> [i \in 1..Len(numbers) |->
                      [peerId |-> Str(obj.OrderResponse.Order.PeerId._text),
                       didId |-> obj.order_id,
                       e164 |-> Str("+1" \o numbers[i].FullNumber._text),
                       countryCodeA3 |-> Str("USA"),
                       areaCode |->
                           _parseAreaCode(obj.OrderResponse.Summary._text)]],
                  resultCount |-> Len(numbers)]

\* ------------------------------------------------ bodies a server may send
OrderIds  == {"ord-1", "ord-2"}
PeerIds   == {"500709"}
Summaries == {<<"1 number ordered in ", "(", "919", ")">>, <<"no summary">>}

TNSTexts ==
    {EmptyText} \cup
    {TNSText(NumsOf(1, c), nx) : c \in 0..MaxNums, nx \in {"", Url(2)}}
OrderTexts ==
    {EmptyText} \cup
    {OrderText(id, st, p, <<"no summary">>, <<>>) :
        id \in OrderIds, st \in {"RECEIVED", "BACKORDERED", "FAILED"}, p \in PeerIds}
CheckTexts ==
    {EmptyText} \cup
    {OrderText(id, st, p, s, NumsOf(1, c)) :
        id \in OrderIds, st \in {"COMPLETE", "PARTIAL", "FAILED"}, p \in PeerIds,
        s \in Summaries, c \in 0..MaxNums}

Classes == {"CBWTNSResponse", "CBWOrderResponse", "CBWCheckOrderResponse"}
TextsOf(cls) ==
    IF cls = "CBWTNSResponse" THEN TNSTexts
    ELSE IF cls = "CBWOrderResponse" THEN OrderTexts ELSE CheckTexts

\* ------------------------------------------ a wrapper and arbitrary callers
Read(op, value, replaced) ==
    [op |-> op, value |-> value, text |-> w.textValue, replaced |-> replaced]

CacheInit ==
    /\ \E cls \in Classes : \E t \in TextsOf(cls) : w = NewResponse(cls, t)
    /\ nParse = IF w.json = Null THEN 0 ELSE 1
    /\ lastRead = [op |-> "none", value |-> Null, text |-> w.textValue,
                   replaced |-> FALSE]

\* wrapper.text = t
SetText(t) ==
    /\ w' = setText(w, t)
    /\ nParse' = 0
    /\ lastRead' = [op |-> "set", value |-> Null, text |-> t, replaced |-> TRUE]
    /\ UNCHANGED <<pageVars, allocVars>>

\* wrapper.toJSON()
CallToJSON ==
    /\ w' = toJSONObj(w)
    /\ nParse' = IF toJSONParses(w) THEN nParse + 1 ELSE nParse
    /\ lastRead' = Read("toJSON", toJSON(w), lastRead.replaced)
    /\ UNCHANGED <<pageVars, allocVars>>

\* wrapper.Numbers
GetNumbers ==
    /\ w.cls \in {"CBWTNSResponse", "CBWCheckOrderResponse"}
    /\ IF w.cls = "CBWTNSResponse"
       THEN /\ w' = toJSONObj(w)
            /\ nParse' = IF toJSONParses(w) THEN nParse + 1 ELSE nParse
            /\ lastRead' = Read("Numbers", TNSNumbers(w), lastRead.replaced)
       ELSE /\ lastRead' = Read("Numbers", CheckNumbers(w), lastRead.replaced)
            /\ UNCHANGED <<w, nParse>>
    /\ UNCHANGED <<pageVars, allocVars>>

\* wrapper.Id
GetId ==
    /\ w.cls = "CBWOrderResponse"
    /\ lastRead' = Read("Id", OrderId(w), lastRead.replaced)
    /\ UNCHANGED <<w, nParse>>
    /\ UNCHANGED <<pageVars, allocVars>>

\* wrapper.Status
GetStatus ==
    /\ w.cls \in {"CBWOrderResponse", "CBWCheckOrderResponse"}
    /\ lastRead' = Read("Status", OrderStatus(w), lastRead.replaced)
    /\ UNCHANGED <<w, nParse>>
    /\ UNCHANGED <<pageVars, allocVars>>

CacheNext ==
    \/ \E t \in TextsOf(w.cls) : SetText(t)
    \/ CallToJSON
    \/ GetNumbers
    \/ GetId
    \/ GetStatus

\* the parts of the state a specification does not use stay as they are here
PagesIdle ==
    /\ pages = <<>> /\ resObject = Null /\ tpc = "idle" /\ result = Null
    /\ fetched = <<>> /\ inflight = <<>> /\ lastNext = Null /\ lastHanded = Null
    /\ tnsOutcome = Null
AllocIdle ==
    /\ apc = "idle" /\ q = Null /\ order = Null /\ check = Null
    /\ promise = Null /\ cb = "notrun" /\ outcome = Null /\ posts = <<>>
    /\ gets = <<>> /\ clock = 0 /\ armedAt = -1 /\ httpFail = Null
CacheIdle ==
    /\ w = Null /\ nParse = 0 /\ lastRead = Null

InitCache == CacheInit /\ PagesIdle /\ AllocIdle
SpecCache == InitCache /\ [][CacheNext]_vars

\* what a reader returns on a wrapper just built around text
FreshRead(op, cls, text) ==
    LET o == [cls |-> cls, textValue |-> text, json |-> Null, nextIndex |-> 0]
    IN  IF text = EmptyText THEN Null
        ELSE IF op = "toJSON" THEN xml2js(text)
        ELSE IF op = "Id" THEN OrderId(toJSONObj(o))
        ELSE IF op = "Status" THEN OrderStatus(toJSONObj(o))
        ELSE IF cls = "CBWTNSResponse" THEN TNSNumbers(o)
        ELSE CheckNumbers(toJSONObj(o))

\* C6: the cached parse is absent or the parse of the current raw text; the
\* text a wrapper holds is parsed at most once, however often it is read; and
\* every reader (toJSON, Numbers, Id, Status) returns nothing, or what the raw
\* text held at the time of the read yields, never data of an earlier text.
C6_ParseNeverStale ==
    /\ \/ w.json = Null
       \/ w.textValue # EmptyText /\ w.json = xml2js(w.textValue)
    /\ nParse <= 1
    /\ lastRead.op \in {"toJSON", "Numbers", "Id", "Status"} =>
          \/ lastRead.value = Null
          \/ lastRead.value = FreshRead(lastRead.op, w.cls, lastRead.text)

\* a text was replaced, parsed again, and a reader returned its data
C6_Witness ==
    /\ lastRead.replaced
    /\ lastRead.op \in {"Numbers", "Status"}
    /\ lastRead.value # Null
    /\ nParse = 1
    /\ lastRead.text = w.textValue

\* C7: a numbers accessor that finds one item or several in the parsed body
\* returns a list with one entry per item in source order; for a single item
\* that is the one-element list.
C7_NumbersIsList ==
    (/\ lastRead.op = "Numbers"
     /\ lastRead.value # Null
     /\ Len(lastRead.text.numbers) >= 1)
    => lastRead.value =
          Arr([i \in 1..Len(lastRead.text.numbers) |->
                 IF w.cls = "CBWTNSResponse" THEN lastRead.text.numbers[i]
                 ELSE "+1" \o lastRead.text.numbers[i]])

\* ------------------------------------------------- the listing's server
StatusTexts == {"Internal Server Error"}

\* page i of the chain links to page i + 1, the last page to nothing
PageText(i) == TNSText(pages[i], IF i < Len(pages) THEN Url(i + 1) ELSE "")

\* the body the server holds at a url
Serve(url) == PageText(CHOOSE i \in 1..Len(pages) : Url(i) = url)

Chains ==
    UNION {{[i \in 1..k |-> NumsOf(i, c[i])] : c \in [1..k -> 0..MaxNums]} :
              k \in 1..MaxPages}

RECURSIVE ConcatPages(_)
ConcatPages(k) == IF k = 0 THEN <<>> ELSE ConcatPages(k - 1) \o pages[k]

Returned(v) == [kind |-> "returned", value |-> v]
Threw(e)    == [kind |-> "threw", value |-> e]
Pending     == [kind |-> "pending", value |-> Undefined]

\* ------------------------------------------------------ getSipPeersTNSAll
AllInit ==
    /\ pages \in Chains
    /\ resObject = Null /\ tpc = "start" /\ result = Null /\ fetched = <<>>
    /\ inflight = <<>> /\ lastNext = Null /\ lastHanded = Null
    /\ tnsOutcome = Pending

\* getSipPeersTNSAll called: getSipPeersTNS issues the GET of page 1
TNSAllCall ==
    /\ tpc = "start"
    /\ fetched' = <<Url(1)>>
    /\ tpc' = "first"
    /\ UNCHANGED <<pages, resObject, result, inflight, lastNext, lastHanded,
                   tnsOutcome>>
    /\ UNCHANGED <<cacheVars, allocVars>>

\* the head of the for-of loop on wrapper o (its text in place) with the array
\* res: next() decides, and either the loop ends and res is returned or the
\* step's GET goes out and the consumer awaits it
LoopHead(o, res) ==
    /\ lastNext' = [done |-> nextDone(o), text |-> o.textValue,
                    handed |-> IF lastHanded' = Null THEN Null
                               ELSE lastHanded'.value.textValue]
    /\ resObject' = toJSONObj(o)
    /\ result' = res
    /\ IF nextDone(o)
       THEN /\ tpc' = "done"
            /\ tnsOutcome' = Returned(res)
            /\ inflight' = <<>>
            /\ UNCHANGED fetched
       ELSE /\ tpc' = "page"
            /\ inflight' = <<nextLink(o)[1]>>
            /\ fetched' = Append(fetched, nextLink(o)[1])
            /\ UNCHANGED tnsOutcome

\* the consumer ends with an exception
Abort(o, res, e) ==
    /\ tpc' = "done"
    /\ tnsOutcome' = Threw(e)
    /\ resObject' = o
    /\ result' = res
    /\ inflight' = <<>>
    /\ UNCHANGED <<fetched, lastNext>>

\* the GET of page 1 returns
FirstResponse(ok, statusText) ==
    /\ tpc = "first"
    /\ UNCHANGED <<pages, lastHanded>>
    /\ UNCHANGED <<cacheVars, allocVars>>
    /\ IF ~ok
       THEN Abort(resObject, result, JSError("CBWTNSError", statusText))
       ELSE LET o == NewResponse("CBWTNSResponse", PageText(1))
            IN  IF TNSNumbers(o).kind = "array"
                THEN LoopHead(toJSONObj(o), TNSNumbers(o))
                ELSE IF TNSNumbers(o) = Null
                THEN LoopHead(toJSONObj(o), Null)
                ELSE Abort(toJSONObj(o), result, TNSNumbers(o))

\* the GET of a step returns: the step replaces the wrapper's text and hands
\* the new page over; the consumer pushes its numbers and takes the loop head
PageResponse(ok, statusText) ==
    /\ tpc = "page"
    /\ UNCHANGED pages
    /\ UNCHANGED <<cacheVars, allocVars>>
    /\ IF ~ok
       THEN /\ Abort(resObject, result, JSError("CBWTNSError", statusText))
            /\ UNCHANGED lastHanded
       ELSE LET o == stepReplace(resObject, Serve(inflight[1]))
                v == stepValue(o)
            IN  /\ lastHanded' = [value |-> v, wrapperText |-> o.textValue,
                                  url |-> inflight[1]]
                /\ IF TNSNumbers(v).kind = "array" /\ result # Null
                   THEN LoopHead(o, Arr(result.items \o TNSNumbers(v).items))
                   ELSE Abort(o, result, TypeError)

AllNext ==
    \/ TNSAllCall
    \/ \E st \in StatusTexts : FirstResponse(TRUE, st)
    \/ \E st \in StatusTexts : FirstResponse(FALSE, st)
    \/ \E st \in StatusTexts : PageResponse(TRUE, st)
    \/ \E st \in StatusTexts : PageResponse(FALSE, st)

InitAll == AllInit /\ CacheIdle /\ AllocIdle
SpecAll == InitAll /\ [][AllNext]_vars

NoNextLink(text) == text = EmptyText \/ text.next = ""
AllUrls == [i \in 1..Len(pages) |-> Url(i)]

\* C4: next() reports done exactly when the page the wrapper holds carries no
\* next link; getSipPeersTNSAll leaves its loop only on the last page of the
\* chain, after one GET for each page of the chain, in order.
C4_DoneIffNoNextLink ==
    /\ lastNext # Null => (lastNext.done <=> NoNextLink(lastNext.text))
    /\ tnsOutcome.kind = "returned" =>
          /\ lastNext.done
          /\ resObject.textValue = PageText(Len(pages))
          /\ fetched = AllUrls

\* the loop ended on the last page of a chain of several pages
C4_Witness ==
    /\ tnsOutcome.kind = "returned"
    /\ Len(pages) >= 2
    /\ lastNext.done
    /\ lastHanded # Null

\* C5: when every page request succeeds, getSipPeersTNSAll returns the numbers
\* of pages 1..k concatenated in page order, having fetched each page once.
C5_AllPagesConcatenated ==
    (/\ tpc = "done"
     /\ ~(tnsOutcome.kind = "threw" /\ tnsOutcome.value.kind = "Error"))
    => /\ tnsOutcome = Returned(Arr(ConcatPages(Len(pages))))
       /\ fetched = AllUrls

\* ------------------------------- the iterator under an arbitrary consumer
IterInit ==
    /\ pages \in Chains
    /\ resObject = NewResponse("CBWTNSResponse", PageText(1))
    /\ tpc = "free" /\ result = Null /\ fetched = <<>>
    /\ inflight = <<>> /\ lastNext = Null /\ lastHanded = Null
    /\ tnsOutcome = Pending

\* the consumer calls next(), awaited or not
CallNext ==
    /\ tpc = "free"
    /\ Len(inflight) < MaxFlight
    /\ lastNext' = [done |-> nextDone(resObject), text |-> resObject.textValue,
                    handed |-> IF lastHanded = Null THEN Null
                               ELSE lastHanded.value.textValue]
    /\ resObject' = toJSONObj(resObject)
    /\ inflight' = IF nextDone(resObject) THEN inflight
                   ELSE Append(inflight, nextLink(resObject)[1])
    /\ UNCHANGED <<pages, tpc, result, fetched, lastHanded, tnsOutcome>>
    /\ UNCHANGED <<cacheVars, allocVars>>

Remove(seq, i) == SubSeq(seq, 1, i - 1) \o SubSeq(seq, i + 1, Len(seq))

\* the GET of the i-th step in flight returns
StepReturns(i, ok, statusText) ==
    /\ tpc = "free"
    /\ i \in 1..Len(inflight)
    /\ inflight' = Remove(inflight, i)
    /\ IF ok
       THEN /\ resObject' = stepReplace(resObject, Serve(inflight[i]))
            /\ lastHanded' = [value |-> stepValue(resObject'),
                              wrapperText |-> resObject'.textValue,
                              url |-> inflight[i]]
            /\ UNCHANGED tnsOutcome
       ELSE /\ tnsOutcome' = Threw(JSError("CBWTNSError", statusText))
            /\ UNCHANGED <<resObject, lastHanded>>
    /\ UNCHANGED <<pages, tpc, result, fetched, lastNext>>
    /\ UNCHANGED <<cacheVars, allocVars>>

IterNext ==
    \/ CallNext
    \/ \E i \in 1..MaxFlight, st \in StatusTexts : StepReturns(i, TRUE, st)
    \/ \E i \in 1..MaxFlight, st \in StatusTexts : StepReturns(i, FALSE, st)

InitIter == IterInit /\ CacheIdle /\ AllocIdle
SpecIter == InitIter /\ [][IterNext]_vars

Timeout == 1000
TickMs  == Timeout \div 2

JSNumber(n) == [kind |-> "number", n |-> n]
Queries ==
    [areaCode : {Undefined, Str("919")}, city : {Undefined, Str("Cary")},
     state : {Undefined, Str("NC")}, quantity : {Undefined, JSNumber(2)}]

Site      == "14480"
SippeerId == "500709"

\* searchAndOrderDID, line 110
quantityOf(qq) ==
    IF qq.quantity = Undefined THEN JSNumber(1) ELSE qq.quantity

\* searchAndOrderDID, lines 112-135: the order to post, Null if none
orderObj(qq) ==
    IF qq.city # Undefined /\ qq.state # Undefined
    THEN [kind |-> "object", SiteId |-> Site, PeerId |-> SippeerId,
          type |-> "CitySearchAndOrderType",
          search |-> <<qq.city, qq.state>>, Quantity |-> quantityOf(qq)]
    ELSE IF qq.areaCode # Undefined
    THEN [kind |-> "object", SiteId |-> Site, PeerId |-> SippeerId,
          type |-> "AreaCodeSearchAndOrderType",
          search |-> <<qq.areaCode>>, Quantity |-> quantityOf(qq)]
    ELSE Null

AllocInit ==
    /\ apc = "start" /\ q = Null /\ order = Null /\ check = Null
    /\ promise = Null /\ cb = "notrun" /\ outcome = Pending /\ posts = <<>>
    /\ gets = <<>> /\ clock = 0 /\ armedAt = -1 /\ httpFail = Null

\* allocate(q) called: searchAndOrderDID builds the order and posts it
AllocCall(qq) ==
    /\ apc = "start"
    /\ q' = [qq EXCEPT !.quantity = quantityOf(qq)]
    /\ IF orderObj(qq) = Null
       THEN /\ outcome' = Threw(JSError("Error", "Not enough parameters"))
            /\ apc' = "done"
            /\ UNCHANGED posts
       ELSE /\ posts' = Append(posts, orderObj(qq))
            /\ apc' = "posting"
            /\ UNCHANGED outcome
    /\ UNCHANGED <<order, check, promise, cb, gets, clock, armedAt, httpFail>>
    /\ UNCHANGED <<cacheVars, pageVars>>

\* the POST returns: searchAndOrderDID throws or wraps the body, and allocate
\* creates the promise and arms the timer
PostReturns(ok, statusText, body) ==
    /\ apc = "posting"
    /\ IF ~ok
       THEN /\ outcome' = Threw(JSError("Error", statusText))
            /\ httpFail' = Str(statusText)
            /\ apc' = "done"
            /\ UNCHANGED <<order, promise, armedAt>>
       ELSE /\ order' = NewResponse("CBWOrderResponse", body)
            /\ promise' = [state |-> "pending", value |-> Undefined]
            /\ armedAt' = clock
            /\ apc' = "timer"
            /\ UNCHANGED <<outcome, httpFail>>
    /\ UNCHANGED <<q, check, cb, posts, gets, clock>>
    /\ UNCHANGED <<cacheVars, pageVars>>

\* time passes while the POST is out or the timer is armed
MaxPostTicks == 1
Tick ==
    /\ \/ apc = "posting" /\ clock < MaxPostTicks * TickMs
       \/ apc = "timer" /\ clock < armedAt + Timeout
    /\ clock' = clock + TickMs
    /\ UNCHANGED <<apc, q, order, check, promise, cb, outcome, posts, gets,
                   armedAt, httpFail>>
    /\ UNCHANGED <<cacheVars, pageVars>>

\* a timer that may run its callback at once
TimerDueAtOnce == armedAt >= 0

\* setTimeout(callback, timeout): the callback runs no earlier than timeout
\* after the call
TimerDue == armedAt >= 0 /\ clock >= armedAt + Timeout

\* the timer callback starts: a RECEIVED order has its status checked, any
\* other leaves the callback without settling the promise
TimerFires ==
    /\ apc = "timer"
    /\ TimerDue
    /\ IF OrderStatus(order) = Str("RECEIVED")
       THEN /\ gets' = Append(gets, [at |-> clock, orderid |-> OrderId(order)])
            /\ cb' = "running"
            /\ apc' = "checking"
       ELSE /\ cb' = "fulfilled"
            /\ apc' = "awaiting"
            /\ UNCHANGED gets
    /\ UNCHANGED <<q, order, check, promise, outcome, posts, clock, armedAt,
                   httpFail>>
    /\ UNCHANGED <<cacheVars, pageVars>>

\* the GET of the status check returns: checkOrder throws inside the callback,
\* or the callback settles the promise and allocate returns result.Response
CheckReturns(ok, statusText, body) ==
    /\ apc = "checking"
    /\ IF ~ok
       THEN /\ cb' = "rejected"
            /\ httpFail' = Str(statusText)
            /\ apc' = "awaiting"
            /\ UNCHANGED <<check, promise, outcome>>
       ELSE LET c == NewResponse("CBWCheckOrderResponse", body)
            IN  /\ cb' = "fulfilled"
                /\ apc' = "done"
                /\ UNCHANGED httpFail
                /\ IF OrderStatus(c) = Str("COMPLETE")
                   THEN LET obj == [toJSON(c) EXCEPT !.order_id = OrderId(order)]
                        IN  /\ check' = [c EXCEPT !.json = obj]
                            /\ promise' = [state |-> "resolved", value |-> obj]
                            /\ outcome' =
                                  IF UnifiedResponse(obj) = TypeError
                                  THEN Threw(TypeError)
                                  ELSE Returned(UnifiedResponse(obj))
                   ELSE /\ check' = c
                        /\ promise' = [state |-> "rejected",
                                       value |-> OrderStatus(c)]
                        /\ outcome' = IF OrderStatus(c) = Null
                                      THEN Threw(TypeError)
                                      ELSE Returned(Undefined)
    /\ UNCHANGED <<q, order, posts, gets, clock, armedAt>>
    /\ UNCHANGED <<cacheVars, pageVars>>

AllocNext ==
    \/ \E qq \in Queries : AllocCall(qq)
    \/ \E st \in StatusTexts, body \in OrderTexts : PostReturns(TRUE, st, body)
    \/ \E st \in StatusTexts, body \in OrderTexts : PostReturns(FALSE, st, body)
    \/ Tick
    \/ TimerFires
    \/ \E st \in StatusTexts, body \in CheckTexts : CheckReturns(TRUE, st, body)
    \/ \E st \in StatusTexts, body \in CheckTexts : CheckReturns(FALSE, st, body)

InitAlloc == AllocInit /\ CacheIdle /\ PagesIdle
SpecAlloc == InitAlloc /\ [][AllocNext]_vars

\* what the two responses of an allocate held, read off their raw text
OrderWas(status) ==
    /\ order # Null
    /\ order.textValue # EmptyText
    /\ order.textValue.status = status
CheckAnswered == check # Null /\ check.textValue # EmptyText

\* C1: allocate whose order was RECEIVED and whose status check answered
\* COMPLETE with n >= 1 completed numbers returns a result with resultCount n
\* and n dids, in source order, each with e164 "+1" followed by the number's
\* digits and didId the id of the submitted order.
C1_UnifiedResultPerNumber ==
    (/\ apc = "done"
     /\ OrderWas("RECEIVED")
     /\ CheckAnswered
     /\ check.textValue.status = "COMPLETE"
     /\ Len(check.textValue.numbers) >= 1)
    => /\ outcome.kind = "returned"
       /\ outcome.value.kind = "object"
       /\ outcome.value.resultCount = Len(check.textValue.numbers)
       /\ Len(outcome.value.dids) = Len(check.textValue.numbers)
       /\ \A i \in 1..Len(check.textValue.numbers) :
             /\ outcome.value.dids[i].e164 =
                   Str("+1" \o check.textValue.numbers[i])
             /\ outcome.value.dids[i].didId = Str(order.textValue.id)

\* a city/state query of quantity 2 completed with 2 numbers, under an order
\* id that the status check's own body does not repeat
C1_Witness ==
    /\ apc = "done"
    /\ q.city # Undefined /\ q.state # Undefined /\ q.quantity = JSNumber(2)
    /\ OrderWas("RECEIVED")
    /\ CheckAnswered
    /\ check.textValue.status = "COMPLETE"
    /\ Len(check.textValue.numbers) = 2
    /\ check.textValue.id # order.textValue.id
    /\ outcome.kind = "returned"
    /\ outcome.value.resultCount = 2

\* C2: a status check that answers anything but COMPLETE makes allocate fail
\* to its caller with the observed status as the reason.
C2_OtherStatusFails ==
    (/\ apc = "done"
     /\ CheckAnswered
     /\ check.textValue.status # "COMPLETE")
    => outcome = Threw(Str(check.textValue.status))

\* C3: a non-success HTTP status on a request makes the operation fail to its
\* caller with an error carrying the status text.
C3_HttpFailureAborts ==
    httpFail # Null =>
        /\ outcome.kind = "threw"
        /\ outcome.value.kind = "Error"
        /\ outcome.value.message = httpFail.s

\* C8: allocate posts one order and no more; it checks the status at most
\* once, only of an order that came back RECEIVED, and only once the delay
\* has elapsed since the timer was armed on the return of the submission;
\* once the timer callback has run, a RECEIVED order has had exactly one check
\* and any other order none.
C8_SingleAttemptPoll ==
    /\ Len(posts) <= 1
    /\ Len(gets) <= 1
    /\ apc \in {"posting", "timer", "checking", "awaiting"} => Len(posts) = 1
    /\ order # Null => Len(posts) = 1
    /\ \A i \in 1..Len(gets) :
          /\ order # Null
          /\ armedAt >= 0
          /\ gets[i].at >= armedAt + Timeout
          /\ OrderWas("RECEIVED")
          /\ gets[i].orderid = Str(order.textValue.id)
    /\ cb # "notrun" => Len(gets) = IF OrderWas("RECEIVED") THEN 1 ELSE 0

\* an allocate that ran to its end after one check, the POST having taken time
C8_Witness ==
    /\ apc = "done"
    /\ Len(posts) = 1
    /\ Len(gets) = 1
    /\ armedAt > 0
    /\ gets[1].at = armedAt + Timeout

\* C10: once the order submission succeeded, the delay has elapsed and the
\* timer callback is over with no request left in flight, allocate has
\* settled: it returned or failed to its caller.
C10_AllocateSettles ==
    (order # Null /\ cb \in {"fulfilled", "rejected"}) => outcome.kind # "pending"

====
